---- MODULE Spec2Model ----
(***************************************************************************)
(* Linearised sparse voxel octree (renderer/voxel/octree) and the Chunk    *)
(* that owns one (renderer/voxel/chunk).  The state is one Chunk<SIZE>:    *)
(* its Tree (size, data) and its dense voxel array, plus history variables *)
(* recording the last call and the occupancy a caller expects.             *)
(***************************************************************************)
EXTENDS Integers, Sequences, FiniteSets, TLC

\* ------------------------------------------------------------------ bounds

\* Largest tree depth explored: domain sizes are 2^0 .. 2^MaxDepth.
MaxDepth == 3

\* Number of API calls made on one chunk.
MaxCalls == 2

\* Largest depth for which the buffer size is estimated: sizes 2^0 ..
\* 2^MaxEstDepth.
MaxEstDepth == 11

\* Largest alignment drawn: 2^MaxAlignLog.
MaxAlignLog == 8

\* Largest extent, on each axis, of the cells drawn for subdivide.
MaxExtent == 4

\* ------------------------------------------------------- program constants

\* Tree::new aligns the buffer length to 256 bytes.
Alignment == 256

\* Width of the u32 arithmetic of estimated_size / pow8.
U32Bits == 32

\* ---------------------------------------------------------------- integers

RECURSIVE Pow2(_)
Pow2(n) == IF n = 0 THEN 1 ELSE 2 * Pow2(n - 1)

\* floor(log2(n)) for n >= 1: `(size as f32).log2() as u32`.
RECURSIVE Log2(_)
Log2(n) == IF n <= 1 THEN 0 ELSE 1 + Log2(n \div 2)

\* Bitwise and / or of two naturals.
RECURSIVE BitAnd(_, _)
BitAnd(a, b) ==
    IF a = 0 \/ b = 0 THEN 0
    ELSE (a % 2) * (b % 2) + 2 * BitAnd(a \div 2, b \div 2)

RECURSIVE BitOr(_, _)
BitOr(a, b) ==
    IF a = 0 THEN b
    ELSE IF b = 0 THEN a
    ELSE (IF a % 2 = 1 \/ b % 2 = 1 THEN 1 ELSE 0) + 2 * BitOr(a \div 2, b \div 2)

\* `!mask` on a u8.
Not8(m) == 255 - m

\* Bit i of byte b.
Bit(b, i) == (b \div Pow2(i)) % 2

Min(S) == CHOOSE m \in S : \A n \in S : m <= n

\* ----------------------------------------------------------------- Point3D

Point3D(x, y, z) == [x |-> x, y |-> y, z |-> z]

\* impl From<i32> for Point3D
PointFromScalar(v) == Point3D(v, v, v)

\* impl Add for Point3D
PointAdd(a, b) == Point3D(a.x + b.x, a.y + b.y, a.z + b.z)

\* impl Div<i32> for Point3D (non-negative operands)
PointDivScalar(a, s) == Point3D(a.x \div s, a.y \div s, a.z \div s)

\* impl PartialEq<i32> for Point3D
PointEqScalar(a, s) == a.x = s /\ a.y = s /\ a.z = s

\* -------------------------------------------------------------------- Cell

CellNew(position, extend) == [position |-> position, extend |-> extend]

\* Option::None of subdivide.
None == << >>

\* A subdivide that enumerates the children with the y and z offsets
\* exchanged (child 1 is the +y child, child 2 the +z child).
subdivideYZSwapped(cell) ==
    IF PointEqScalar(cell.extend, 1) THEN << >>
    ELSE LET new_extend == PointDivScalar(cell.extend, 2)
             new_position == <<
                 cell.position,
                 PointAdd(cell.position, Point3D(0, new_extend.y, 0)),
                 PointAdd(cell.position, Point3D(0, 0, new_extend.z)),
                 PointAdd(cell.position, Point3D(0, new_extend.y, new_extend.z)),
                 PointAdd(cell.position, Point3D(new_extend.x, 0, 0)),
                 PointAdd(cell.position, Point3D(new_extend.x, new_extend.y, 0)),
                 PointAdd(cell.position, Point3D(new_extend.x, 0, new_extend.z)),
                 PointAdd(cell.position, Point3D(new_extend.x, new_extend.y, new_extend.z)) >>
         IN [i \in 1..8 |-> CellNew(new_position[i], new_extend)]

\* A subdivide that gives up as soon as one axis has extent 1.
subdivideNoneOnAnyUnit(cell) ==
    IF cell.extend.x = 1 \/ cell.extend.y = 1 \/ cell.extend.z = 1 THEN << >>
    ELSE LET new_extend == PointDivScalar(cell.extend, 2)
         IN [i \in 1..8 |->
                CellNew(PointAdd(cell.position,
                                 Point3D(new_extend.x * (((i - 1) \div 4) % 2),
                                         new_extend.y * (((i - 1) \div 2) % 2),
                                         new_extend.z * ((i - 1) % 2))),
                        new_extend)]

\* Cell::subdivide: None on a unit cell, else the 8 children in the fixed
\* order (sequence index i+1 holds child i).
subdivide(cell) ==
    IF PointEqScalar(cell.extend, 1) THEN None
    ELSE LET new_extend == PointDivScalar(cell.extend, 2)
             new_position == <<
                 cell.position,
                 PointAdd(cell.position, Point3D(0, 0, new_extend.z)),
                 PointAdd(cell.position, Point3D(0, new_extend.y, 0)),
                 PointAdd(cell.position, Point3D(0, new_extend.y, new_extend.z)),
                 PointAdd(cell.position, Point3D(new_extend.x, 0, 0)),
                 PointAdd(cell.position, Point3D(new_extend.x, 0, new_extend.z)),
                 PointAdd(cell.position, Point3D(new_extend.x, new_extend.y, 0)),
                 PointAdd(cell.position, Point3D(new_extend.x, new_extend.y, new_extend.z)) >>
         IN [i \in 1..8 |-> CellNew(new_position[i], new_extend)]

\* A contains that tests the upper bounds only.
containsNoLowerBound(cell, point) ==
    /\ point.x < cell.position.x + cell.extend.x
    /\ point.y < cell.position.y + cell.extend.y
    /\ point.z < cell.position.z + cell.extend.z

\* A contains whose upper bounds are inclusive.
containsClosed(cell, point) ==
    /\ point.x >= cell.position.x
    /\ point.y >= cell.position.y
    /\ point.z >= cell.position.z
    /\ point.x <= cell.position.x + cell.extend.x
    /\ point.y <= cell.position.y + cell.extend.y
    /\ point.z <= cell.position.z + cell.extend.z

\* Cell::contains: half-open interval test on the three axes.
contains(cell, point) ==
    /\ point.x >= cell.position.x
    /\ point.y >= cell.position.y
    /\ point.z >= cell.position.z
    /\ point.x < cell.position.x + cell.extend.x
    /\ point.y < cell.position.y + cell.extend.y
    /\ point.z < cell.position.z + cell.extend.z

\* A search that falls back on child 0 when no child contains the point.
MatchIndexDefaultZero(cells, point) ==
    LET hits == {i \in 0..7 : contains(cells[i + 1], point)}
    IN IF hits = {} THEN 0 ELSE Min(hits)

\* The first child (in loop order) containing the point, or -1 when the
\* `for` loop finds none.
MatchIndex(cells, point) ==
    LET hits == {i \in 0..7 : contains(cells[i + 1], point)}
    IN IF hits = {} THEN -1 ELSE Min(hits)

\* -------------------------------------------------------------------- Tree

\* Tree::pow8: the u32 shift 1 << (3 * exp).  A shift amount of 32 or more
\* overflows: an optimised build masks the amount to its low 5 bits.
pow8(exp) == Pow2((3 * exp) % U32Bits)

\* n ones in binary: 2^n - 1.
RECURSIVE AllOnes(_)
AllOnes(n) == IF n = 0 THEN 0 ELSE 2 * AllOnes(n - 1) + 1

\* (q - 1) / 8 on u32: 0 - 1 wraps to 2^32 - 1 in an optimised build.
WrappingSubOneDiv8(q) ==
    IF q >= 1 THEN (q - 1) \div 8 ELSE AllOnes(U32Bits - 3)

\* Tree::estimated_size: the value an optimised build returns.
estimated_size(size) ==
    LET depth == Log2(size)
    IN WrappingSubOneDiv8((pow8(depth + 1) - 1) \div 7)

\* Tree::estimated_size in a build with overflow checks: the shift of pow8
\* panics when its amount does not fit the 32 bits.
estimated_size_panics(size) == 3 * (Log2(size) + 1) >= U32Bits

\* A rounding that adds the whole alignment: (n + a) & !(a - 1).
estimated_size_alignedPlusOne(size, alignement) ==
    LET n == estimated_size(size) + alignement
    IN n - BitAnd(n, alignement - 1)

\* Tree::estimated_size_aligned: (n + (a - 1)) & !(a - 1)
estimated_size_aligned(size, alignement) ==
    LET n == estimated_size(size) + (alignement - 1)
    IN n - BitAnd(n, alignement - 1)

\* A buffer of the unaligned length.
TreeNewDataUnaligned(size) ==
    [o \in 0..(estimated_size(size) - 1) |-> 0]

\* Tree::new: the zeroed buffer, indexed from 0.
TreeNewData(size) ==
    [o \in 0..(estimated_size_aligned(size, Alignment) - 1) |-> 0]

\* data.len()
DataLen(data) == Cardinality(DOMAIN data)

\* An offset computed without the + 1.
NextOffsetNoPlusOne(offset, cell_index) == offset * 8 + cell_index

\* let next_offset = offset * 8 + (cell_index + 1);
NextOffset(offset, cell_index) == offset * 8 + (cell_index + 1)

\* let mask = 1 << cell_index;
Mask(cell_index) == Pow2(cell_index)

\* A marking that replaces the byte by the mask (`=` for `|=`).
MarkChildOverwrite(byte, cell_index) == Pow2(cell_index)

\* A marking that toggles the bit (`^=` for `|=`).
MarkChildToggle(byte, cell_index) ==
    IF Bit(byte, cell_index) = 1 THEN byte - Pow2(cell_index)
    ELSE byte + Pow2(cell_index)

\* A marking that is left out.
MarkChildSkipped(byte, cell_index) == byte

\* A mark that is made only on a byte that is still 0.
MarkChildOnlyFirst(byte, cell_index) ==
    IF byte = 0 THEN Pow2(cell_index) ELSE byte

\* self.data[offset] |= mask;
MarkChild(byte, cell_index) == BitOr(byte, Mask(cell_index))

\* A leaf test that fires at every level.
IsLeafWriteAlways(next_offset, len) == TRUE

\* if next_offset >= self.data.len()
IsLeafWrite(next_offset, len) == next_offset >= len

\* A leaf write that replaces the whole byte.
WriteStateWholeByte(byte, cell_index, state) ==
    (IF state THEN 1 ELSE 0) * Pow2(cell_index)

\* A leaf write that stores the negated state.
WriteStateInverted(byte, cell_index, state) ==
    BitOr(BitAnd(byte, Not8(Pow2(cell_index))),
          (IF state THEN 0 ELSE 1) * Pow2(cell_index))

\* (self.data[offset] & !mask) | ((state as u8) << cell_index)
WriteState(byte, cell_index, state) ==
    BitOr(BitAnd(byte, Not8(Mask(cell_index))),
          (IF state THEN 1 ELSE 0) * Pow2(cell_index))

\* A run of one top-level call: the buffer, its length, the offsets used to
\* index the buffer (in order), whether an index was out of bounds (a
\* panic), the number of invocations of the recursive function, the value
\* returned (get_block_state only), and the leaf writes made (lines
\* 101-102): the offset and child written and the invocation that wrote.
RunStart(data) ==
    [data |-> data, len |-> DataLen(data), accessed |-> << >>,
     fault |-> FALSE, calls |-> 0, result |-> FALSE, leaf_writes |-> << >>]

\* A step that reads the child's byte at next_offset before comparing
\* next_offset with the buffer length.
SetStepIndexNext(r, offset, cell_index, state) ==
    LET next_offset == offset * 8 + (cell_index + 1)
    IN IF offset >= r.len
       THEN [r EXCEPT !.accessed = Append(@, offset), !.fault = TRUE]
       ELSE IF next_offset >= r.len
       THEN [r EXCEPT !.accessed = Append(Append(@, offset), next_offset),
                      !.fault = TRUE]
       ELSE [r EXCEPT !.accessed = Append(Append(@, offset), next_offset),
                      !.data = [@ EXCEPT ![offset] =
                                   BitOr(r.data[offset], Pow2(cell_index))]]

\* A step that also marks the byte at next_offset when the buffer has one.
SetStepMarksNext(r, offset, cell_index, state) ==
    LET next_offset == offset * 8 + (cell_index + 1)
    IN IF offset >= r.len
       THEN [r EXCEPT !.accessed = Append(@, offset), !.fault = TRUE]
       ELSE LET byte == BitOr(r.data[offset], Pow2(cell_index))
                marked == [r.data EXCEPT ![offset] = byte]
            IN [r EXCEPT !.accessed = Append(@, offset),
                         !.data = IF next_offset < r.len
                                  THEN [marked EXCEPT ![next_offset] = 1]
                                  ELSE marked]

\* Lines 95-103 of set_block_state for the matched child: index the byte
\* at `offset`, mark the child, and overwrite the bit with `state` when
\* the next offset is past the buffer.
SetStep(r, offset, cell_index, state) ==
    IF offset >= r.len
    THEN [r EXCEPT !.accessed = Append(@, offset), !.fault = TRUE]
    ELSE LET marked == MarkChild(r.data[offset], cell_index)
             fires == IsLeafWrite(NextOffset(offset, cell_index), r.len)
             byte == IF fires
                     THEN WriteState(marked, cell_index, state)
                     ELSE marked
         IN [r EXCEPT !.accessed = Append(@, offset),
                      !.data = [@ EXCEPT ![offset] = byte],
                      !.leaf_writes =
                          IF fires
                          THEN Append(@, [offset |-> offset,
                                          cell_index |-> cell_index,
                                          call |-> r.calls])
                          ELSE @]

\* A descent that returns as soon as the leaf write has been made, without
\* the invocation on the matched child.
RECURSIVE set_block_state_fromReturnAtLeaf(_, _, _, _, _)
set_block_state_fromReturnAtLeaf(r, at, state, cell, offset) ==
    LET cells == subdivide(cell)
        entered == [r EXCEPT !.calls = @ + 1]
    IN IF cells = None THEN entered
       ELSE LET cell_index == MatchIndex(cells, at)
            IN IF cell_index < 0 THEN entered
               ELSE LET stepped == SetStep(entered, offset, cell_index, state)
                    IN IF stepped.fault
                          \/ Len(stepped.leaf_writes) > Len(entered.leaf_writes)
                       THEN stepped
                       ELSE set_block_state_fromReturnAtLeaf(stepped, at, state,
                                cells[cell_index + 1],
                                NextOffset(offset, cell_index))

\* Tree::set_block_state with SearchParameter::Custom { cell, offset }.
RECURSIVE set_block_state_from(_, _, _, _, _)
set_block_state_from(r, at, state, cell, offset) ==
    LET cells == subdivide(cell)
        entered == [r EXCEPT !.calls = @ + 1]
    IN IF cells = None THEN entered
       ELSE LET cell_index == MatchIndex(cells, at)
            IN IF cell_index < 0 THEN entered
               ELSE LET stepped == SetStep(entered, offset, cell_index, state)
                    IN IF stepped.fault THEN stepped
                       ELSE set_block_state_from(stepped, at, state,
                                cells[cell_index + 1],
                                NextOffset(offset, cell_index))

\* A run that starts from a root cell of twice the side.
set_block_stateDoubleRoot(size, data, at, state) ==
    set_block_state_from(RunStart(data), at, state,
                         CellNew(PointFromScalar(0), PointFromScalar(size * 2)), 0)

\* Tree::set_block_state with SearchParameter::None: the run from the root
\* cell at offset 0.
set_block_state(size, data, at, state) ==
    set_block_state_from(RunStart(data), at, state,
                         CellNew(PointFromScalar(0), PointFromScalar(size)), 0)

\* A step whose bit test is inverted (`==` for `!=`).
GetStepInverted(r, offset, cell_index) ==
    IF offset >= r.len
    THEN [r EXCEPT !.accessed = Append(@, offset), !.fault = TRUE]
    ELSE [r EXCEPT !.accessed = Append(@, offset),
                   !.result = (BitAnd(r.data[offset], Pow2(cell_index))
                                 # Pow2(cell_index))]

\* A step that marks the child's bit while testing it.
GetStepMarking(r, offset, cell_index) ==
    IF offset >= r.len
    THEN [r EXCEPT !.accessed = Append(@, offset), !.fault = TRUE]
    ELSE [r EXCEPT !.accessed = Append(@, offset),
                   !.data = [@ EXCEPT ![offset] =
                                BitOr(r.data[offset], Pow2(cell_index))],
                   !.result = (BitAnd(r.data[offset], Pow2(cell_index))
                                 = Pow2(cell_index))]

\* A step that tests whether the byte has any bit set.
GetStepAnyBit(r, offset, cell_index) ==
    IF offset >= r.len
    THEN [r EXCEPT !.accessed = Append(@, offset), !.fault = TRUE]
    ELSE [r EXCEPT !.accessed = Append(@, offset),
                   !.result = (r.data[offset] # 0)]

\* Lines 140-144 of get_block_state for the matched child: index the byte
\* at `offset` and test the child's bit.
GetStep(r, offset, cell_index) ==
    IF offset >= r.len
    THEN [r EXCEPT !.accessed = Append(@, offset), !.fault = TRUE]
    ELSE [r EXCEPT !.accessed = Append(@, offset),
                   !.result = (BitAnd(r.data[offset], Mask(cell_index))
                                 = Mask(cell_index))]

\* A descent that answers false on a cell that does not subdivide.
RECURSIVE get_block_state_fromNoneFalse(_, _, _, _)
get_block_state_fromNoneFalse(r, at, cell, offset) ==
    LET cells == subdivide(cell)
        entered == [r EXCEPT !.calls = @ + 1]
    IN IF cells = None THEN [entered EXCEPT !.result = FALSE]
       ELSE LET cell_index == MatchIndex(cells, at)
            IN IF cell_index < 0 THEN [entered EXCEPT !.result = TRUE]
               ELSE LET stepped == GetStep(entered, offset, cell_index)
                    IN IF stepped.fault \/ ~stepped.result THEN stepped
                       ELSE get_block_state_fromNoneFalse(stepped, at,
                                cells[cell_index + 1],
                                NextOffset(offset, cell_index))

\* Tree::get_block_state with SearchParameter::Custom { cell, offset }.
RECURSIVE get_block_state_from(_, _, _, _)
get_block_state_from(r, at, cell, offset) ==
    LET cells == subdivide(cell)
        entered == [r EXCEPT !.calls = @ + 1]
    IN IF cells = None THEN [entered EXCEPT !.result = TRUE]
       ELSE LET cell_index == MatchIndex(cells, at)
            IN IF cell_index < 0 THEN [entered EXCEPT !.result = TRUE]
               ELSE LET stepped == GetStep(entered, offset, cell_index)
                    IN IF stepped.fault \/ ~stepped.result THEN stepped
                       ELSE get_block_state_from(stepped, at,
                                cells[cell_index + 1],
                                NextOffset(offset, cell_index))

\* Tree::get_block_state with SearchParameter::None.
get_block_state(size, data, at) ==
    get_block_state_from(RunStart(data), at,
                         CellNew(PointFromScalar(0), PointFromScalar(size)), 0)

\* Tree::raw_data: the buffer itself, borrowed.
raw_data(data) == data

\* Tree::get_size
get_size(size) == size

\* VoxelRendererPass::new: the size of the GPU octree buffer (octree_buf).
OctreeBufSize(chunk_size) == estimated_size_aligned(chunk_size, 256)

\* VoxelRendererPass::new: the size of the GPU voxel buffer (voxel_buf),
\* size_of::<u16>() * CHUNK_SIZE^3.
VoxelBufSize(chunk_size) == 2 * chunk_size * chunk_size * chunk_size

\* ------------------------------------------------------------------- Chunk

\* A voxel array of SIZE * SIZE elements.
ChunkNewVoxelsSquare(size) == [i \in 0..(size * size - 1) |-> 0]

\* Chunk::new: vec![0u16; SIZE * SIZE * SIZE], indexed from 0.
ChunkNewVoxels(size) == [i \in 0..(size * size * size - 1) |-> 0]

\* Chunk::set_voxel: the body is the single statement `self.voxels[0];`,
\* an index expression whose value is dropped; nothing is stored.
set_voxel(vox, ty, x, y, z) ==
    LET read == vox[0]
    IN IF read = read THEN vox ELSE vox

\* Chunk::get_voxels
get_voxels(vox) == vox

\* Chunk::get_raw_voxels: the u16 elements as bytes, in the byte order of
\* the (little-endian) host.
get_raw_voxels(vox) ==
    [i \in 0..(2 * Cardinality(DOMAIN vox) - 1) |->
        IF i % 2 = 0 THEN vox[i \div 2] % 256 ELSE vox[i \div 2] \div 256]

\* Chunk::add_block
add_block(size, data, at) == set_block_state(size, data, at, TRUE)

\* Chunk::rem_block
rem_block(size, data, at) == set_block_state(size, data, at, FALSE)

\* ------------------------------------------------------------ state machine

VARIABLES
    size,      \* Tree::size (and the Chunk's SIZE)
    data,      \* Tree::data
    voxels,    \* Chunk::voxels
    expected,  \* history: the points whose most recent set was `true`
    history,   \* history: the calls made, in order
    last,      \* history: the last call, the buffer before it and its run
    probe      \* the last call of a function that takes no chunk, with its result

vars == << size, data, voxels, expected, history, last, probe >>

\* Domain sizes explored.
Sizes == {Pow2(d) : d \in 0..MaxDepth}

\* All points of the domain [0, n)^3.
Domain(n) == {Point3D(x, y, z) : x \in 0..(n - 1), y \in 0..(n - 1), z \in 0..(n - 1)}

\* The points drawn for the calls on a domain of side n: the 8 corners of
\* the domain, and one neighbour of the first and of the last corner that
\* shares its leaf's parent.
CallPoints(n) ==
    ({Point3D(x, y, z) : x \in {0, n - 1}, y \in {0, n - 1}, z \in {0, n - 1}}
        \cup {Point3D(0, n - 2, 0), Point3D(n - 1, n - 1, n - 2)})
    \cap [x : 0..(n - 1), y : 0..(n - 1), z : 0..(n - 1)]

\* Voxel types drawn for set_voxel (a u16 with two different bytes).
VoxelTypes == {513}

NoPoint == Point3D(-1, -1, -1)

Call(op, at, state, ty, before, run) ==
    [op |-> op, at |-> at, state |-> state, ty |-> ty, before |-> before,
     accessed |-> run.accessed, fault |-> run.fault, calls |-> run.calls,
     result |-> run.result, leaf_writes |-> run.leaf_writes]

ncalls == Len(history)

NoProbe == [op |-> "none"]

\* Chunk::<SIZE>::new / Tree::new(SIZE)
Init ==
    /\ size \in Sizes
    /\ data = TreeNewData(size)
    /\ voxels = ChunkNewVoxels(size)
    /\ expected = {}
    /\ history = << >>
    /\ last = Call("new", NoPoint, FALSE, 0, data, RunStart(data))
    /\ probe = NoProbe

\* chunk.add_block(at): tree.set_block_state(at, true, None)
AddBlock(at) ==
    /\ ncalls < MaxCalls
    /\ ~last.fault
    /\ LET run == add_block(size, data, at)
       IN /\ data' = run.data
          /\ last' = Call("add_block", at, TRUE, 0, data, run)
    /\ expected' = expected \cup {at}
    /\ history' = Append(history, [op |-> "add_block", at |-> at])
    /\ UNCHANGED << size, voxels, probe >>

\* chunk.rem_block(at): tree.set_block_state(at, false, None)
RemBlock(at) ==
    /\ ncalls < MaxCalls
    /\ ~last.fault
    /\ LET run == rem_block(size, data, at)
       IN /\ data' = run.data
          /\ last' = Call("rem_block", at, FALSE, 0, data, run)
    /\ expected' = expected \ {at}
    /\ history' = Append(history, [op |-> "rem_block", at |-> at])
    /\ UNCHANGED << size, voxels, probe >>

\* tree.get_block_state(at, SearchParameter::None)
GetBlockState(at) ==
    /\ ncalls < MaxCalls
    /\ ~last.fault
    /\ LET run == get_block_state(size, data, at)
       IN /\ data' = run.data
          /\ last' = Call("get_block_state", at, FALSE, 0, data, run)
    /\ history' = Append(history, [op |-> "get_block_state", at |-> at])
    /\ UNCHANGED << size, voxels, expected, probe >>

\* chunk.set_voxel(ty, x, y, z)
SetVoxel(ty, at) ==
    /\ ncalls < MaxCalls
    /\ ~last.fault
    /\ voxels' = set_voxel(voxels, ty, at.x, at.y, at.z)
    /\ last' = Call("set_voxel", at, FALSE, ty, data, RunStart(data))
    /\ history' = Append(history, [op |-> "set_voxel", at |-> at])
    /\ UNCHANGED << size, data, expected, probe >>

Next ==
    \/ \E at \in CallPoints(size) : AddBlock(at)
    \/ \E at \in CallPoints(size) : RemBlock(at)
    \/ \E at \in CallPoints(size) : GetBlockState(at)
    \/ \E at \in CallPoints(size), ty \in VoxelTypes : SetVoxel(ty, at)

Spec == Init /\ [][Next]_vars

\* ------------------------------------------- the functions without a chunk

\* Depths drawn for the calls of estimated_size: sizes 2^0 .. 2^MaxEstDepth.
EstSizes == {Pow2(d) : d \in 0..MaxEstDepth}

\* Alignments drawn: the powers of two 2^0 .. 2^MaxAlignLog.
Alignments == {Pow2(a) : a \in 0..MaxAlignLog}

\* Overflow checks on (a debug build) or off (an optimised build).
Builds == {"checked", "unchecked"}

\* Cells drawn for subdivide: two origins, every extent up to MaxExtent.
ProbeCells ==
    {CellNew(pos, Point3D(ex, ey, ez)) :
        pos \in {Point3D(0, 0, 0), Point3D(-3, 2, 5)},
        ex \in 1..MaxExtent, ey \in 1..MaxExtent, ez \in 1..MaxExtent}

\* The cells of the subdivision below `cell`, each with the offset the
\* descent of set_block_state / get_block_state gives it.
RECURSIVE Nodes(_, _)
Nodes(cell, offset) ==
    LET cells == subdivide(cell)
    IN {[cell |-> cell, offset |-> offset]} \cup
       (IF cells = None THEN {}
        ELSE UNION {Nodes(cells[i + 1], NextOffset(offset, i)) : i \in 0..7})

\* One chunk of size 1 stands by while the functions are called; the
\* functions keep no state, so one call of each is explored.
ProbeInit ==
    /\ size = 1
    /\ data = TreeNewData(size)
    /\ voxels = ChunkNewVoxels(size)
    /\ expected = {}
    /\ history = << >>
    /\ last = Call("new", NoPoint, FALSE, 0, data, RunStart(data))
    /\ probe = NoProbe

\* Tree::estimated_size(n) and Tree::estimated_size_aligned(n, alignment)
EstimateSize(n, alignment, build) ==
    /\ probe = NoProbe
    /\ probe' = LET panics == build = "checked" /\ estimated_size_panics(n)
                IN [op |-> "estimated_size", size |-> n,
                    alignment |-> alignment, build |-> build,
                    panics |-> panics,
                    len |-> IF panics THEN 0 ELSE estimated_size(n),
                    aligned |-> IF panics THEN 0
                                ELSE estimated_size_aligned(n, alignment)]
    /\ UNCHANGED << size, data, voxels, expected, history, last >>

\* cell.subdivide()
Subdivide(cell) ==
    /\ probe = NoProbe
    /\ probe' = [op |-> "subdivide", cell |-> cell, cells |-> subdivide(cell)]
    /\ UNCHANGED << size, data, voxels, expected, history, last >>

\* The descents from the root cell of a domain of side n to every cell of
\* its subdivision.
Address(n) ==
    /\ probe = NoProbe
    /\ probe' = [op |-> "address", size |-> n,
                 nodes |-> Nodes(CellNew(PointFromScalar(0), PointFromScalar(n)), 0),
                 estimated |-> estimated_size(n)]
    /\ UNCHANGED << size, data, voxels, expected, history, last >>

ProbeNext ==
    \/ \E n \in EstSizes, a \in Alignments, b \in Builds : EstimateSize(n, a, b)
    \/ \E cell \in ProbeCells : Subdivide(cell)
    \/ \E n \in Sizes : Address(n)

ProbeSpec == ProbeInit /\ [][ProbeNext]_vars

\* --------------------------------------------------- the tree by itself

\* Points outside the domain [0, n)^3: one below it, two above it.
OutPoints(n) == {Point3D(-1, 0, 0), Point3D(0, n, 0), Point3D(n - 1, n - 1, n)}

\* tree.set_block_state(at, state, SearchParameter::None) with a point that
\* the root cell does not contain.
SetBlockStateOutside(at, state) ==
    /\ ncalls < MaxCalls
    /\ ~last.fault
    /\ LET run == set_block_state(size, data, at, state)
       IN /\ data' = run.data
          /\ last' = Call("set_block_state", at, state, 0, data, run)
    /\ history' = Append(history, [op |-> "set_block_state", at |-> at])
    /\ UNCHANGED << size, voxels, expected, probe >>

\* tree.get_block_state(at, SearchParameter::None) with a point that the
\* root cell does not contain.
GetBlockStateOutside(at) ==
    /\ ncalls < MaxCalls
    /\ ~last.fault
    /\ LET run == get_block_state(size, data, at)
       IN /\ data' = run.data
          /\ last' = Call("get_block_state", at, FALSE, 0, data, run)
    /\ history' = Append(history, [op |-> "get_block_state", at |-> at])
    /\ UNCHANGED << size, voxels, expected, probe >>

\* The calls that reach the tree: sets on points of the domain, and sets
\* and gets on points outside it.
TreeNext ==
    \/ \E at \in CallPoints(size) : AddBlock(at)
    \/ \E at \in CallPoints(size) : RemBlock(at)
    \/ \E at \in OutPoints(size), state \in BOOLEAN : SetBlockStateOutside(at, state)
    \/ \E at \in OutPoints(size) : GetBlockStateOutside(at)

TreeSpec == Init /\ [][TreeNext]_vars

TypeOK ==
    /\ size \in Sizes
    /\ \A o \in DOMAIN data : data[o] \in 0..255
    /\ ncalls \in 0..MaxCalls

\* ------------------------------------------------------------------ claims

IsSetCall(l) == l.op \in {"add_block", "rem_block"}

\* No add_block / rem_block has been made.
NoMutation == \A i \in 1..Len(history) : history[i].op \notin {"add_block", "rem_block"}

\* The root-to-leaf path of point p in a domain of side n, computed from the
\* coordinates' bits: at level l (0 is the root) the child holding p has
\* index 4*bx + 2*by + bz, where b is the bit of weight n / 2^(l+1).
PathChild(p, level, n) ==
    LET half == n \div Pow2(level + 1)
    IN 4 * ((p.x \div half) % 2) + 2 * ((p.y \div half) % 2) + ((p.z \div half) % 2)

RECURSIVE PathOffset(_, _, _)
PathOffset(p, level, n) ==
    IF level = 0 THEN 0
    ELSE PathOffset(p, level - 1, n) * 8 + PathChild(p, level - 1, n) + 1

\* The terminal bit of p: bit child_index of the byte of the leaf's parent.
TerminalBit(d, p, n) ==
    Bit(d[PathOffset(p, Log2(n) - 1, n)], PathChild(p, Log2(n) - 1, n))

\* C1: after set_block_state(p, true, None) on an in-domain point p, in any
\* reachable tree state and for every domain size, get_block_state(p, None)
\* returns true.
C1_SetThenGet ==
    last.op = "add_block" =>
        LET run == get_block_state(size, data, last.at)
        IN run.result /\ ~run.fault

\* C1 witness: an add_block on a tree of depth >= 2 turned the answer for
\* its point from false to true.
C1_Witness ==
    /\ last.op = "add_block"
    /\ size >= 4
    /\ ~get_block_state(size, last.before, last.at).result
    /\ get_block_state(size, data, last.at).result

\* C2 (as claimed): the tree is a faithful occupancy map: for every in-domain
\* p, get_block_state(p, None) equals the state of the most recent set on p,
\* and false if p was never set (stated for the domains with a buffer,
\* size >= 2).
C2_FaithfulOccupancy ==
    size >= 2 =>
        \A p \in Domain(size) :
            get_block_state(size, data, p).result = (p \in expected)

\* C3 (as claimed): after set_block_state(p, false, None) / rem_block(p) the
\* terminal bit of p is 0 and get_block_state(p, None) returns false.
C3_ClearWorks ==
    (last.op = "rem_block" /\ size >= 2) =>
        /\ TerminalBit(data, last.at, size) = 0
        /\ ~get_block_state(size, data, last.at).result

\* C4 (amended): on a freshly constructed tree of power-of-two size >= 2,
\* before any mutation, get_block_state(p, None) returns false for every
\* point p of the domain.
C4_FreshTreeEmpty ==
    (size >= 2 /\ NoMutation) =>
        /\ data = TreeNewData(size)
        /\ last.op = "get_block_state" => ~last.result
        /\ history = << >> =>
              \A p \in Domain(size) : ~get_block_state(size, data, p).result

\* C4 witness: a get_block_state answered false on an unmutated tree of
\* depth >= 2.
C4_Witness ==
    /\ size >= 4
    /\ NoMutation
    /\ last.op = "get_block_state"
    /\ ~last.result
    /\ Len(last.accessed) = 1

\* C4 (as claimed): the same for every power-of-two size >= 1.
C4_FreshTreeEmptyAnySize ==
    NoMutation =>
        /\ last.op = "get_block_state" => ~last.result
        /\ history = << >> =>
              \A p \in Domain(size) : ~get_block_state(size, data, p).result

\* C5 (as claimed): set_voxel(value, x, y, z) stores value at the row-major
\* index x + y*SIZE + z*SIZE^2 of the dense array and leaves every other
\* element unchanged (zero on a new chunk), as read through get_voxels and
\* get_raw_voxels.
C5_SetVoxelStores ==
    last.op = "set_voxel" =>
        LET idx == last.at.x + last.at.y * size + last.at.z * size * size
        IN /\ get_voxels(voxels)[idx] = last.ty
           /\ get_raw_voxels(voxels)[2 * idx] = last.ty % 256
           /\ get_raw_voxels(voxels)[2 * idx + 1] = last.ty \div 256
           /\ \A i \in DOMAIN voxels : i # idx => voxels[i] = 0

\* C6: set_block_state(p, true, None) is idempotent: in the state reached
\* by one call, a second call with the same point leaves the buffer as it is.
C6_SetIdempotent ==
    last.op = "add_block" =>
        set_block_state(size, data, last.at, TRUE).data = data

\* C6 witness: an add_block that changed the buffer of a tree of depth >= 2.
C6_Witness ==
    /\ last.op = "add_block"
    /\ size >= 4
    /\ data # last.before

\* C7: after set_block_state(p, true, None), walking the buffer from offset
\* 0 with offset' = offset*8 + c + 1 finds bit c set in the byte at every
\* visited offset, for all log2(size) levels.
C7_PathMarked ==
    last.op = "add_block" =>
        \A level \in 0..(Log2(size) - 1) :
            LET o == PathOffset(last.at, level, size)
            IN /\ o \in DOMAIN data
               /\ Bit(data[o], PathChild(last.at, level, size)) = 1

\* C7 witness: an add_block on an untouched path of a tree of depth 3: the
\* root bit and the terminal bit of the point were 0 before the call.
C7_Witness ==
    /\ last.op = "add_block"
    /\ size = 8
    /\ Bit(last.before[0], PathChild(last.at, 0, size)) = 0
    /\ TerminalBit(data, last.at, size) = 1

\* C8: on Tree::new(8), after set_block_state((0,0,0), true) then
\* set_block_state((0,6,0), true), the root byte has exactly bits 0 and 2
\* set, get_block_state of both points is true and of (7,7,7) false.
C8_Scenario ==
    (size = 8 /\ history = << [op |-> "add_block", at |-> Point3D(0, 0, 0)],
                              [op |-> "add_block", at |-> Point3D(0, 6, 0)] >>) =>
        /\ data[0] = 5
        /\ get_block_state(size, data, Point3D(0, 0, 0)).result
        /\ get_block_state(size, data, Point3D(0, 6, 0)).result
        /\ ~get_block_state(size, data, Point3D(7, 7, 7)).result

\* C8 witness: the state after the two calls of the scenario.
C8_Witness ==
    /\ size = 8
    /\ history = << [op |-> "add_block", at |-> Point3D(0, 0, 0)],
                    [op |-> "add_block", at |-> Point3D(0, 6, 0)] >>
    /\ last.at = Point3D(0, 6, 0)
    /\ data # last.before

\* C9: in every set_block_state / get_block_state call from the root on an
\* in-domain point, every index used on the buffer is < data.len(): no call
\* faults, and next_offset is never an index before the checks.
C9_AccessInBounds ==
    /\ ~last.fault
    /\ \A i \in 1..Len(last.accessed) : last.accessed[i] \in DOMAIN data
    /\ (IsSetCall(last) /\ size >= 2) => Len(last.accessed) = Log2(size)

\* C9 witness: a set on a tree of depth 3 whose last next_offset is past the
\* end of the buffer, and a get that walked all the levels.
C9_Witness ==
    /\ size = 8
    /\ history # << >>
    /\ \/ /\ IsSetCall(last)
          /\ NextOffset(last.accessed[Len(last.accessed)],
                        PathChild(last.at, Log2(size) - 1, size)) >= DataLen(data)
       \/ /\ last.op = "get_block_state"
          /\ last.result
          /\ Len(last.accessed) = Log2(size)

\* C10: interior presence bits are never reclaimed: a call never turns a
\* bit of a byte of a node whose children are not unit cells from 1 to 0;
\* the only bit a call can turn from 1 to 0 is the terminal bit of the
\* call's point.
C10_InteriorBitsKept ==
    \A o \in {q \in DOMAIN data : data[q] # last.before[q]} :
        \A b \in 0..7 :
            (Bit(last.before[o], b) = 1 /\ Bit(data[o], b) = 0) =>
                /\ IsSetCall(last)
                /\ o >= estimated_size(size \div 2)
                /\ o = PathOffset(last.at, Log2(size) - 1, size)
                /\ b = PathChild(last.at, Log2(size) - 1, size)

\* C10 witness: a rem_block turned the terminal bit of its point from 1 to
\* 0 and the root bit of its path is still 1.
C10_Witness ==
    /\ last.op = "rem_block"
    /\ size >= 4
    /\ TerminalBit(last.before, last.at, size) = 1
    /\ TerminalBit(data, last.at, size) = 0
    /\ Bit(data[0], PathChild(last.at, 0, size)) = 1

\* The number of non-leaf nodes of the complete 8-ary tree of depth d:
\* 8^0 + 8^1 + ... + 8^(d-1).
RECURSIVE NonLeafCount(_)
NonLeafCount(d) == IF d = 0 THEN 0 ELSE 1 + 8 * NonLeafCount(d - 1)

\* C11 (as claimed): for every power-of-two size, estimated_size(size)
\* returns the number of non-leaf nodes of the complete 8-ary tree of depth
\* log2(size), 8^0 + ... + 8^(depth-1).
C11_EstimatedSizeIsNodeCount ==
    probe.op = "estimated_size" =>
        /\ ~probe.panics
        /\ probe.len = NonLeafCount(Log2(probe.size))

\* C12: for every power-of-two size and alignment A, the value returned by
\* estimated_size_aligned(size, A) is a multiple of A, is >=
\* estimated_size(size) and is < estimated_size(size) + A.
C12_AlignedSize ==
    (probe.op = "estimated_size" /\ ~probe.panics) =>
        /\ probe.aligned % probe.alignment = 0
        /\ probe.aligned >= probe.len
        /\ probe.aligned < probe.len + probe.alignment

\* C12 witness: the 585 bytes of a tree of size 16 rounded up to 768, and
\* a size already aligned (alignment 1).
C12_Witness ==
    /\ probe.op = "estimated_size"
    /\ ~probe.panics
    /\ \/ probe.size = 16 /\ probe.alignment = 256
          /\ probe.len = 585 /\ probe.aligned = 768
       \/ probe.size = 8 /\ probe.alignment = 1
          /\ probe.len = 73 /\ probe.aligned = 73

\* C13: the octree buffer length is fixed. After Tree::new(size) and after
\* any sequence of set_block_state / get_block_state calls, raw_data().len()
\* is estimated_size_aligned(size, 256), the size of the GPU octree buffer
\* allocated for the same CHUNK_SIZE, and the last call did not change it.
C13_BufferLengthFixed ==
    /\ DataLen(raw_data(data)) = estimated_size_aligned(size, Alignment)
    /\ DataLen(raw_data(data)) = OctreeBufSize(size)
    /\ DataLen(raw_data(data)) = DataLen(last.before)

\* C13 witness: a tree of 73 non-leaf nodes after a set and a get, with its
\* 256 bytes.
C13_Witness ==
    /\ size = 8
    /\ ncalls = 2
    /\ history[1].op \in {"add_block", "rem_block"}
    /\ history[2].op = "get_block_state"
    /\ data # TreeNewData(size)
    /\ DataLen(raw_data(data)) = 256

\* C14: Cell::subdivide returns None exactly when extend == (1,1,1); for a
\* cell of extent E >= 2 in every axis it returns exactly 8 children, each
\* of extent E/2, child i at parent position + (E/2 * bit2(i),
\* E/2 * bit1(i), E/2 * bit0(i)).
C14_Subdivide ==
    probe.op = "subdivide" =>
        LET E == probe.cell.extend
            pos == probe.cell.position
            cells == probe.cells
        IN /\ (cells = None) <=> (E = Point3D(1, 1, 1))
           /\ (E.x >= 2 /\ E.y = E.x /\ E.z = E.x) =>
                 /\ Len(cells) = 8
                 /\ \A i \in 0..7 :
                      /\ cells[i + 1].extend = PointFromScalar(E.x \div 2)
                      /\ cells[i + 1].position =
                            Point3D(pos.x + (E.x \div 2) * Bit(i, 2),
                                    pos.y + (E.x \div 2) * Bit(i, 1),
                                    pos.z + (E.x \div 2) * Bit(i, 0))

\* C14 witness: a cell of extent 4 away from the origin has been subdivided
\* into 8 children, or a unit cell has returned None.
C14_Witness ==
    /\ probe.op = "subdivide"
    /\ \/ /\ probe.cell = CellNew(Point3D(-3, 2, 5), PointFromScalar(4))
          /\ Len(probe.cells) = 8
          /\ probe.cells[7] = CellNew(Point3D(-1, 4, 5), PointFromScalar(2))
       \/ /\ probe.cell.extend = PointFromScalar(1)
          /\ probe.cells = None

\* C15: every top-level set_block_state(p, s, None) and
\* get_block_state(p, None) call terminates after at most log2(size) + 1
\* invocations of the recursive function, for in-domain points (the calls
\* made) and out-of-domain points (called on the current buffer wherever
\* a further call can be made) alike.
C15_BoundedInvocations ==
    /\ (IsSetCall(last) \/ last.op = "get_block_state") =>
           (last.calls >= 1 /\ last.calls <= Log2(size) + 1)
    /\ ncalls < MaxCalls => \A p \in OutPoints(size), s \in BOOLEAN :
           /\ set_block_state(size, data, p, s).calls \in 1..(Log2(size) + 1)
           /\ get_block_state(size, data, p).calls \in 1..(Log2(size) + 1)

\* C15 witness: a set that went all the way down a tree of depth 3 (4
\* invocations), leaving a buffer where a get of the same point takes 4
\* invocations too and a call on an out-of-domain point returns from its
\* first invocation.
C15_Witness ==
    /\ size = 8
    /\ ncalls = 1
    /\ last.op = "add_block"
    /\ last.calls = Log2(size) + 1
    /\ get_block_state(size, data, last.at).calls = Log2(size) + 1
    /\ set_block_state(size, data, Point3D(0, size, 0), TRUE).calls = 1
    /\ get_block_state(size, data, Point3D(-1, 0, 0)).calls = 1

\* C16: chunk shape. After Chunk::<SIZE>::new and after any sequence of
\* set_voxel / add_block / rem_block calls the dense voxel array has SIZE^3
\* elements and the tree's domain is the cube of side SIZE;
\* get_raw_voxels(), a function of the voxel array alone, has 2 * SIZE^3
\* bytes (the size of the GPU voxel buffer), taken on the fresh chunk and
\* after the first call of each kind.
C16_ChunkShape ==
    LET root == CellNew(PointFromScalar(0), PointFromScalar(get_size(size)))
    IN /\ DOMAIN get_voxels(voxels) = 0..(size * size * size - 1)
       /\ \A p \in CallPoints(size) : contains(root, p)
       /\ \A p \in OutPoints(size) : ~contains(root, p)
       /\ ncalls <= 1 =>
             /\ DOMAIN get_raw_voxels(voxels) = 0..(2 * size * size * size - 1)
             /\ Cardinality(DOMAIN get_raw_voxels(voxels)) = VoxelBufSize(size)

\* C16 witness: a chunk of side 4 after a set_voxel, with its 64 voxels and
\* 128 bytes.
C16_Witness ==
    /\ size = 4
    /\ ncalls = 1
    /\ last.op = "set_voxel"
    /\ Cardinality(DOMAIN get_voxels(voxels)) = 64
    /\ Cardinality(DOMAIN get_raw_voxels(voxels)) = 128

\* The invocations of the last call at which the leaf write fired.
LeafWriteCalls == {last.leaf_writes[k].call : k \in 1..Len(last.leaf_writes)}

\* C17 (as claimed): during set_block_state from the root, for every
\* in-domain point, next_offset >= data.len() is true exactly when the
\* matched child is a unit cell: the state is written at the level one above
\* the leaves (invocation log2(size)) and at no other level.
C17_LeafTestIsLeafLevel ==
    IsSetCall(last) =>
        \A i \in 1..Len(last.accessed) :
            (i \in LeafWriteCalls) <=> (i = Log2(size))

\* C18 (as claimed): when the leaf write fires, bit child_index is
\* overwritten with state and the call returns at once: the invocation that
\* wrote is the last one, and no further byte is read or written.
C18_LeafWriteReturnsImmediately ==
    IsSetCall(last) =>
        \A k \in 1..Len(last.leaf_writes) :
            LET w == last.leaf_writes[k]
            IN /\ Bit(data[w.offset], w.cell_index) = (IF last.state THEN 1 ELSE 0)
               /\ last.calls = w.call
               /\ Len(last.accessed) = w.call
               /\ last.accessed[w.call] = w.offset

\* C18 (amended): when the leaf write fires, bit child_index is overwritten
\* with state and exactly one more invocation follows, on the matched unit
\* cell, which touches no byte; the write is the only one of the call and
\* no other bit of the byte is changed by it.
C18_LeafWriteThenOneInvocation ==
    IsSetCall(last) =>
        /\ Len(last.leaf_writes) <= 1
        /\ \A k \in 1..Len(last.leaf_writes) :
              LET w == last.leaf_writes[k]
              IN /\ Bit(data[w.offset], w.cell_index) = (IF last.state THEN 1 ELSE 0)
                 /\ \A b \in 0..7 : b # w.cell_index =>
                        Bit(data[w.offset], b) = Bit(last.before[w.offset], b)
                 /\ last.calls = w.call + 1
                 /\ Len(last.accessed) = w.call
                 /\ last.accessed[w.call] = w.offset

\* C18 witness: a rem_block whose leaf write cleared a bit that was set.
C18_Witness ==
    /\ last.op = "rem_block"
    /\ Len(last.leaf_writes) = 1
    /\ LET w == last.leaf_writes[1]
       IN /\ Bit(last.before[w.offset], w.cell_index) = 1
          /\ Bit(data[w.offset], w.cell_index) = 0
          /\ last.calls = w.call + 1

\* The levels (0 is the root) of p's descent whose bit child_index is 0 in
\* buffer d.
ZeroLevels(d, p, n) ==
    {l \in 0..(Log2(n) - 1) :
        Bit(d[PathOffset(p, l, n)], PathChild(p, l, n)) = 0}

\* C19: get_block_state(p, None) for an in-domain p returns true if and
\* only if at every one of the log2(size) levels of p's descent bit
\* child_index of the byte at that level's offset is 1; it returns false at
\* the first level whose bit is 0, having read the bytes of the levels down
\* to that one and none deeper.
C19_GetReadsPath ==
    last.op = "get_block_state" =>
        LET zeros == ZeroLevels(last.before, last.at, size)
            depth == IF zeros = {} THEN Log2(size) ELSE Min(zeros) + 1
        IN /\ last.result <=> (zeros = {})
           /\ last.accessed =
                 [i \in 1..depth |-> PathOffset(last.at, i - 1, size)]
           /\ data = last.before

\* C19 witness: a get on a tree of depth 3 that found the bits of the first
\* two levels set and the bit of the third level clear.
C19_Witness ==
    /\ last.op = "get_block_state"
    /\ size = 8
    /\ ~last.result
    /\ Len(last.accessed) = 3
    /\ ZeroLevels(last.before, last.at, size) = {2}

\* C20: addressing is injective and in range. With the root at offset 0
\* and child c of the node at offset o at o * 8 + c + 1, two distinct
\* non-leaf cells of the subdivision of a power-of-two domain never share
\* an offset, every non-leaf cell's offset is < estimated_size(size), and
\* every unit cell's offset is >= estimated_size(size).
C20_AddressingInjective ==
    probe.op = "address" =>
        LET nonleaf == {r \in probe.nodes : r.cell.extend # PointFromScalar(1)}
            leaves == probe.nodes \ nonleaf
            root == CellNew(PointFromScalar(0), PointFromScalar(probe.size))
        IN /\ [cell |-> root, offset |-> 0] \in probe.nodes
           /\ Cardinality({r.offset : r \in nonleaf}) = Cardinality(nonleaf)
           /\ Cardinality({r.cell : r \in nonleaf}) = Cardinality(nonleaf)
           /\ \A r \in nonleaf : r.offset >= 0 /\ r.offset < probe.estimated
           /\ \A r \in leaves : r.offset >= probe.estimated

\* C20 witness: the subdivision of the domain of side 8, with its 73
\* non-leaf cells and 512 unit cells.
C20_Witness ==
    /\ probe.op = "address"
    /\ probe.size = 8
    /\ probe.estimated = 73
    /\ Cardinality({r \in probe.nodes : r.cell.extend # PointFromScalar(1)}) = 73
    /\ Cardinality({r \in probe.nodes : r.cell.extend = PointFromScalar(1)}) = 512

\* The integer points of a cell.
PointsOf(cell) ==
    {Point3D(x, y, z) :
        x \in cell.position.x..(cell.position.x + cell.extend.x - 1),
        y \in cell.position.y..(cell.position.y + cell.extend.y - 1),
        z \in cell.position.z..(cell.position.z + cell.extend.z - 1)}

IsPowerOfTwo(n) == n >= 1 /\ Pow2(Log2(n)) = n

\* C21: for every cell reached by descending from the root cell of a
\* power-of-two domain and every point of that cell, exactly one of the 8
\* children returned by subdivide contains the point; the children lie
\* inside the parent, and every child has a power-of-two extent equal in
\* all three axes.
C21_ChildrenPartition ==
    probe.op = "address" =>
        \A r \in probe.nodes :
            LET cells == subdivide(r.cell)
            IN cells # None =>
                 /\ \A pt \in PointsOf(r.cell) :
                        Cardinality({i \in 1..8 : contains(cells[i], pt)}) = 1
                 /\ \A i \in 1..8 :
                        /\ PointsOf(cells[i]) \subseteq PointsOf(r.cell)
                        /\ IsPowerOfTwo(cells[i].extend.x)
                        /\ cells[i].extend.y = cells[i].extend.x
                        /\ cells[i].extend.z = cells[i].extend.x

\* C21 witness: the descent of the domain of side 8 reached the cell at
\* (4,4,4) of extent 4, and exactly child 5 of it contains (7,5,6).
C21_Witness ==
    /\ probe.op = "address"
    /\ probe.size = 8
    /\ \E r \in probe.nodes :
          /\ r.cell = CellNew(PointFromScalar(4), PointFromScalar(4))
          /\ {i \in 0..7 : contains(subdivide(r.cell)[i + 1], Point3D(7, 5, 6))} = {5}

\* The point lies in the domain [0, size)^3.
InDomain(p) ==
    /\ p.x >= 0 /\ p.x < size
    /\ p.y >= 0 /\ p.y < size
    /\ p.z >= 0 /\ p.z < size

\* The in-domain points that the set calls made so far have targeted.
Targeted ==
    {history[i].at : i \in {j \in 1..Len(history) :
        /\ history[j].op \in {"add_block", "rem_block", "set_block_state"}
        /\ InDomain(history[j].at)}}

\* The offsets of the nodes whose children are not unit cells: the levels
\* 0 .. log2(n) - 2.
InteriorOffsets(n) ==
    IF Log2(n) <= 1 THEN {} ELSE 0..(NonLeafCount(Log2(n) - 1) - 1)

\* C22: presence means visited. In every state reached from a fresh tree by
\* set_block_state calls, bit c of the byte of a node whose child c is not
\* a unit cell is 1 if and only if some earlier call targeted a point
\* inside child c of that node, whatever the state passed and whether or
\* not the point was cleared later.
C22_PresenceMeansVisited ==
    LET visited == {<< PathOffset(p, l, size), PathChild(p, l, size) >> :
                        p \in Targeted, l \in 0..(Log2(size) - 2)}
    IN \A o \in InteriorOffsets(size), c \in 0..7 :
           (Bit(data[o], c) = 1) <=> (<< o, c >> \in visited)

\* C22 witness: on a tree of depth 3, (7,7,7) was added and removed; its
\* terminal bit is 0 and bit 7 of the root and of node 8 are still 1.
C22_Witness ==
    /\ size = 8
    /\ ncalls = 2
    /\ history[1] = [op |-> "add_block", at |-> Point3D(7, 7, 7)]
    /\ history[2] = [op |-> "rem_block", at |-> Point3D(7, 7, 7)]
    /\ TerminalBit(data, Point3D(7, 7, 7), size) = 0
    /\ Bit(data[0], 7) = 1
    /\ Bit(data[8], 7) = 1

\* The last call was a set on a point of the domain.
IsInDomainSet == IsSetCall(last) /\ InDomain(last.at)

\* The last call was made with a point outside the domain.
IsOutsideCall(op) == last.op = op /\ ~InDomain(last.at)

\* The points of the leaf parent of p: the 8 unit cells that share p's
\* last byte.
Siblings(p) ==
    {Point3D(2 * (p.x \div 2) + dx, 2 * (p.y \div 2) + dy, 2 * (p.z \div 2) + dz) :
        dx \in 0..1, dy \in 0..1, dz \in 0..1}

\* C23: point independence. For any reachable tree state and two distinct
\* in-domain points p and q, set_block_state(p, s, None) does not change
\* the value returned by get_block_state(q, None).  The state is the buffer
\* before the last call (p, s), fresh or written by one earlier call; q
\* ranges over the call points and the points that share p's last byte.
C23_PointIndependence ==
    (IsInDomainSet /\ size >= 2 /\ ncalls <= 2) =>
        \A q \in (CallPoints(size) \cup Siblings(last.at)) \ {last.at} :
            get_block_state(size, data, q).result
                = get_block_state(size, last.before, q).result

\* C23 witness: with (7,7,6) present on a tree of depth 3, its neighbour
\* (7,7,7) was removed by a leaf write, and (7,7,6) still reads true.
C23_Witness ==
    /\ size = 8
    /\ ncalls = 2
    /\ history[1] = [op |-> "add_block", at |-> Point3D(7, 7, 6)]
    /\ last.op = "rem_block"
    /\ last.at = Point3D(7, 7, 7)
    /\ Len(last.leaf_writes) = 1
    /\ get_block_state(size, last.before, Point3D(7, 7, 6)).result
    /\ get_block_state(size, data, Point3D(7, 7, 6)).result

\* C24: alignment padding stays zero. In every state reached from
\* Tree::new(size) by set_block_state calls, every byte at an offset in
\* [estimated_size(size), data.len()) is 0.
C24_PaddingStaysZero ==
    \A o \in estimated_size(size)..(DataLen(data) - 1) : data[o] = 0

\* C24 witness: a tree of side 2 after a set: 1 node byte, written, and 255
\* bytes of padding.
C24_Witness ==
    /\ size = 2
    /\ IsInDomainSet
    /\ estimated_size(size) = 1
    /\ DataLen(data) = 256
    /\ data[0] # 0
    /\ data[1] = 0

\* C25: get_block_state with a point outside the domain returns true
\* without reading the buffer, in every tree state, the fresh one included.
C25_GetOutsideIsTrue ==
    IsOutsideCall("get_block_state") =>
        /\ last.result
        /\ last.accessed = << >>
        /\ ~last.fault
        /\ last.calls = 1

\* C25 witness: a get with a negative coordinate on a fresh tree, or a get
\* with a coordinate equal to size on a tree that has been written.
C25_Witness ==
    /\ IsOutsideCall("get_block_state")
    /\ last.result
    /\ \/ ncalls = 1 /\ last.at.x = -1 /\ size = 4
       \/ ncalls = 2 /\ last.at.y = size /\ size = 8 /\ data[0] # 0

\* C26: set_block_state with a point outside the domain does not fault and
\* leaves every byte of the buffer unchanged, for either state value.
C26_SetOutsideIsNoOp ==
    IsOutsideCall("set_block_state") =>
        /\ ~last.fault
        /\ data = last.before
        /\ last.accessed = << >>

\* C26 witness: a set with state false and a coordinate equal to size, on a
\* tree of depth 3 that had been written.
C26_Witness ==
    /\ IsOutsideCall("set_block_state")
    /\ size = 8
    /\ ncalls = 2
    /\ ~last.state
    /\ last.at.z = size
    /\ data[0] # 0
    /\ data = last.before

\* C28: sets on distinct points commute. From any reachable tree state B,
\* for two distinct in-domain points p and q and any states s and t,
\* set(p, s) then set(q, t) gives a buffer byte-identical to set(q, t) then
\* set(p, s).  B is the buffer before the last call (p, s), fresh or
\* written by one earlier call; q ranges over the call points and the
\* points that share p's last byte.
C28_SetsCommute ==
    (IsInDomainSet /\ size >= 2 /\ ncalls <= 2) =>
        \A q \in (CallPoints(size) \cup Siblings(last.at)) \ {last.at},
           t \in BOOLEAN :
            set_block_state(size, data, q, t).data
                = set_block_state(size,
                      set_block_state(size, last.before, q, t).data,
                      last.at, last.state).data

\* C28 witness: on a tree of depth 3 holding (0,0,0), add (7,7,7) and add (7,7,6),
\* two points sharing their last byte, both written by the leaf write: the
\* two orders give the same buffer, different from the buffer after one
\* call.
C28_Witness ==
    /\ size = 8
    /\ ncalls = 2
    /\ history[1] = [op |-> "add_block", at |-> Point3D(0, 0, 0)]
    /\ last.op = "add_block"
    /\ last.at = Point3D(7, 7, 7)
    /\ LET q == Point3D(7, 7, 6)
           pq == set_block_state(size, data, q, TRUE)
           qp == set_block_state(size,
                     set_block_state(size, last.before, q, TRUE).data,
                     last.at, TRUE)
       IN /\ pq.data = qp.data
          /\ pq.data # data
          /\ Len(pq.leaf_writes) = 1
          /\ Len(qp.leaf_writes) = 1

\* C27: degenerate domain. Tree::new(1) has an empty buffer; on it
\* set_block_state((0,0,0), s, None) changes nothing and
\* get_block_state((0,0,0), None) returns true after any sequence of calls,
\* also after set_block_state((0,0,0), false, None).
C27_DegenerateDomain ==
    size = 1 =>
        /\ DataLen(raw_data(data)) = 0
        /\ ~last.fault
        /\ last.accessed = << >>
        /\ IsSetCall(last) => data = last.before
        /\ last.op = "get_block_state" => last.result
        /\ get_block_state(size, data, Point3D(0, 0, 0)).result

\* C27 witness: on the tree of side 1, (0,0,0) was removed and then read
\* as true.
C27_Witness ==
    /\ size = 1
    /\ ncalls = 2
    /\ history[1] = [op |-> "rem_block", at |-> Point3D(0, 0, 0)]
    /\ last.op = "get_block_state"
    /\ last.at = Point3D(0, 0, 0)
    /\ last.result
    /\ DataLen(raw_data(data)) = 0

\* C29: chunk mutation paths are disjoint. add_block and rem_block leave
\* the dense voxel array unchanged, set_voxel leaves the octree buffer
\* unchanged, and get_block_state leaves the octree buffer unchanged.
C29_DisjointPaths ==
    [][/\ IsSetCall(last') => voxels' = voxels
       /\ last'.op \in {"set_voxel", "get_block_state"} =>
             (data' = data /\ last'.before = data)]_vars

\* C29 witness: a get that went down a written tree of depth 3 and left
\* the buffer as it was.
C29_Witness ==
    /\ size = 8
    /\ last.op = "get_block_state"
    /\ Len(last.accessed) = 3
    /\ data # TreeNewData(size)
    /\ data = last.before

\* C30 (as claimed): for every power-of-two size, pow8(depth + 1), the u32
\* shift 1 << (3 * (depth + 1)), does not overflow 32 bits and equals
\* 8^(depth+1), so estimated_size(size) is the exact non-leaf node count
\* and the aligned length that Tree::new allocates is at least that.
C30_ShiftFitsU32 ==
    probe.op = "estimated_size" =>
        LET depth == Log2(probe.size)
        IN /\ 3 * (depth + 1) < U32Bits
           /\ pow8(depth + 1) = Pow2(3 * (depth + 1))
           /\ ~probe.panics
           /\ probe.len = NonLeafCount(depth)
           /\ probe.aligned >= NonLeafCount(depth)

====
